---- MODULE Spec2Model ----
(***************************************************************************)
(* A model of the proxy rotation service: ProxyManager (the pool and its   *)
(* refresh, src/proxy_manager.py) and ProxyUpdater (the tick loop, the     *)
(* continuous validator and force_update, src/updater.py).                 *)
(*                                                                         *)
(* The program runs on one asyncio event loop: the code between two        *)
(* awaits that suspend (a probe, a fetch, a publish, a sleep, a gather) is *)
(* one atomic step, and every such step is one action here.  The lock      *)
(* pm._lock is only ever held over code that has no await, so acquiring it *)
(* never suspends.                                                         *)
(***************************************************************************)
EXTENDS Integers, Sequences, FiniteSets, TLC

\* ------------------------------------------------------------------ bounds
\* host:port lines the candidate sources can serve
NumHosts == 1
\* longest raw line list one source returns inside the running system
MaxLines == 2
\* the merge of refresh_proxies alone: host:port lines the sources can serve,
\* and the longest list of lines one source returns
NumRawHosts == 3
MaxRaw == 3
\* distinct finite latencies a probe can measure
MaxLat == 2
\* refresh_proxies calls in one behaviour of the whole program
MaxRefresh == 1
\* candidates one force_update call may start to verify
MaxTries == 3
\* cycles of run_loop, calls of force_update, passes of the validator
MaxTicks == 2
MaxCalls == 1
MaxPasses == 1
\* the units of time after which more than 300 s have passed
StaleAfter == 2

\* What a specification lets happen: so many refresh_proxies calls, cycles of
\* run_loop, calls of force_update and passes of the validator; and whether
\* the whole history of each force_update call is kept.
Limits(r, t, c, p, tr) ==
    [refreshes |-> r, ticks |-> t, calls |-> c, passes |-> p, tracing |-> tr]

Hosts == 1..NumHosts
RawHosts == 1..NumRawHosts
\* a line that is not "ip:port": line.split(':') raises ValueError
Malformed == 0
Protocols == {"socks5", "http"}
\* Proxy.url: protocol://ip:port, here the pair <<protocol, host:port>>
Urls == Protocols \X Hosts
Lats == 1..MaxLat
\* float('inf'): larger than every measured latency
Inf == MaxLat + 1
\* Python's None, for a reference to a Proxy object
None == <<>>
\* A Proxy object: refresh_proxies call g created it for the endpoint u.
\* Two objects of two refreshes can carry the same url.
Objs == (1..(MaxRefresh + 2)) \X Urls
UrlOf(o) == o[2]

RECURSIVE SeqsUpTo(_, _)
SeqsUpTo(S, n) ==
    IF n = 0 THEN {<<>>}
    ELSE LET shorter == SeqsUpTo(S, n - 1)
         IN  shorter \cup {Append(s, x) : s \in {t \in shorter : Len(t) = n - 1}, x \in S}

Range(s) == {s[i] : i \in 1..Len(s)}

\* What a source answers: a status and the lines of the body.
Responses(H, n) == [status : {200, 500}, lines : SeqsUpTo(H \cup {Malformed}, n)]

\* ------------------------------------------------- refresh: the pure part
\* fetch_socks5_github / fetch_http_github: nothing unless the status is 200;
\* then one Proxy per "ip:port" line, its url built from the source's protocol,
\* the other lines skipped.
RECURSIVE ParseLines(_, _)
ParseLines(proto, lines) ==
    IF lines = <<>> THEN <<>>
    ELSE LET front == ParseLines(proto, SubSeq(lines, 1, Len(lines) - 1))
             line == lines[Len(lines)]
         IN  IF line = Malformed THEN front ELSE Append(front, <<proto, line>>)

FetchSource(proto, response) ==
    IF response.status = 200 THEN ParseLines(proto, response.lines) ELSE <<>>

\* dedupe(proxies): keep the first occurrence of every url, in order.
RECURSIVE dedupe(_)
dedupe(ps) ==
    IF ps = <<>> THEN <<>>
    ELSE LET front == dedupe(SubSeq(ps, 1, Len(ps) - 1))
             p == ps[Len(ps)]
         IN  IF p \in Range(front) THEN front ELSE Append(front, p)

MinOf(S) == CHOOSE m \in S : \A x \in S : m <= x

\* min_count: the least non-zero source count, 0 when every source is empty.
MinCountOverAll(p1, p2) == MinOf({Len(p1), Len(p2)})
min_count(p1, p2) ==
    LET counts == {Len(p1), Len(p2)}
        non_zero_counts == {c \in counts : c > 0}
    IN  IF non_zero_counts = {} THEN 0 ELSE MinOf(non_zero_counts)

\* slice_list(lst, count): lst[:count]
slice_list(lst, count) ==
    IF lst = <<>> THEN <<>>
    ELSE SubSeq(lst, 1, IF count < Len(lst) THEN count ELSE Len(lst))

\* unique_proxies: both sources deduplicated, balanced, merged, deduplicated.
unique_proxies(r1, r2) ==
    LET p1 == dedupe(FetchSource("socks5", r1))
        p2 == dedupe(FetchSource("http", r2))
        n == min_count(p1, p2)
        balanced_proxies == slice_list(p1, n) \o slice_list(p2, n)
    IN  dedupe(balanced_proxies)

\* ------------------------------------------------------------ the pool
\* list.sort(key=latency) is stable: insert each element after the last
\* element whose key is not larger.
InsertByLatency(sorted, x, lat) ==
    LET k == Cardinality({i \in 1..Len(sorted) : lat[sorted[i]] <= lat[x]})
    IN  SubSeq(sorted, 1, k) \o <<x>> \o SubSeq(sorted, k + 1, Len(sorted))

RECURSIVE SortByLatency(_, _)
SortByLatency(ps, lat) ==
    IF ps = <<>> THEN <<>>
    ELSE InsertByLatency(SortByLatency(SubSeq(ps, 1, Len(ps) - 1), lat), ps[Len(ps)], lat)

\* ------------------------------------------------------------ the state
VARIABLES
    proxies,        \* pm.proxies: the pool, a list of Proxy objects
    best_proxy,     \* pm.best_proxy: a Proxy object or None
    latency,        \* latency[o]: Proxy.latency of the pool member o
    current_proxy,  \* updater.current_proxy: the active proxy, or None
    running,        \* updater.running
    elapsed,        \* time passed since last_full_refresh and since the last
                    \* refresh of the pool, in units of StaleAfter to 300 s
    refreshes,      \* refresh_proxies calls so far
    tick,           \* run_loop: where it is suspended, and its locals
    force,          \* force_update: where it is suspended, and its locals
    val,            \* continuous_validation_loop: where it is, the probes in flight
    tasks,          \* tasks[c]: check_and_add_proxy tasks in flight of c's refresh
    up,             \* environment: the endpoints a probe currently reaches
    count,          \* cycles, calls and passes started so far
    fh,             \* history of the force_update call in progress (or the last one)
    accepted,       \* history: the records the remote consumer has accepted
    p1raw, p2raw,   \* refresh_proxies alone: what the two sources answered
    merged          \* refresh_proxies alone: unique_proxies computed from them

poolVars == <<proxies, best_proxy, latency>>
mergeVars == <<p1raw, p2raw, merged>>
vars == <<proxies, best_proxy, latency, current_proxy, running, elapsed,
          refreshes, tick, force, val, tasks, up, count, fh, accepted,
          p1raw, p2raw, merged>>


\* Proxy.latency defaults to float('inf').  The latency of an object that is
\* not in the pool is never read by the program (sorting, the choice of the
\* best candidate and the validator's check read pool members only, and no
\* object enters the pool twice), so only the members' latencies are state.
NoLatency == [o \in Objs |-> Inf]
\* a write of a latency that is lost
LatencyKept(o, v) == latency
\* p.latency = v for a member p of the pool; the latency of an object that
\* has left the pool is never read again and is not kept.
SetLatency(o, v) == IF o \in Range(proxies) THEN [latency EXCEPT ![o] = v] ELSE latency

NoHistory == [tracing |-> FALSE, cur0 |-> None, best0 |-> None, pool0 |-> <<>>,
              min0 |-> {}, tries |-> 0, members |-> {}, outs |-> <<>>,
              failed |-> {}, result |-> "none", named |-> None]
NoResponse == [status |-> 500, lines |-> <<>>]
NotMerged == [done |-> FALSE, list |-> <<>>]

ProgramInit(L) ==
    /\ proxies = <<>>
    /\ best_proxy = None
    /\ latency = NoLatency
    /\ current_proxy = None
    /\ running = FALSE
    /\ elapsed = [last_full_refresh |-> StaleAfter, pool |-> StaleAfter]
    /\ refreshes = 0
    /\ tick = [pc |-> "init", arg |-> None, gen |-> 0, healthy |-> FALSE,
               stale |-> FALSE, failed |-> FALSE]
    /\ force = [pc |-> "idle", arg |-> None, gen |-> 0]
    /\ val = [pc |-> "off", pending |-> {}]
    /\ tasks = [c \in {"tick", "force"} |-> {}]
    /\ fh = [NoHistory EXCEPT !.tracing = L.tracing]
    /\ count = [ticks |-> 0, calls |-> 0, passes |-> 0]
    /\ accepted = {}

Init(L) ==
    /\ ProgramInit(L)
    /\ up \in SUBSET Urls
    /\ p1raw = NoResponse
    /\ p2raw = NoResponse
    /\ merged = NotMerged


\* ------------------------------------------------- the external services
\* verify_proxy_latency / the probe of check_and_add_proxy: a latency in ms
\* when the target answers 200 through the proxy, float('inf') otherwise.
ProbeOutcomes(u) == IF u \in up THEN Lats ELSE {Inf}

\* update_remote's view of the remote consumer: "accept" (200 without the
\* marker), "reject" (200 with "Session regeneration failed"), "fail" (another
\* status), "error" (an exception talking to it).
PublishOutcomes == {"accept", "reject", "fail", "error"}

\* the history of the consumer after it answered out to the publishing of o
Accepting(o, out) == IF out = "accept" THEN accepted \cup {o} ELSE accepted

\* an update_remote that returns True whatever the consumer answers
AlwaysTrue(out) == "True"
\* update_remote's return value: True, False, or None after an exception
update_remote_result(out) ==
    CASE out = "accept" -> "True"
      [] out \in {"reject", "fail"} -> "False"
      [] OTHER -> "None"

\* a looser test that takes every value but False for a success
TruthyNotFalse(v) == v # "False"

\* `if success:` on update_remote's return value
Truthy(v) == v = "True"

EnvProxy(u) ==
    /\ up' = IF u \in up THEN up \ {u} ELSE up \cup {u}
    /\ UNCHANGED <<poolVars, current_proxy, running, elapsed, refreshes, tick, force,
                   val, tasks, count, fh, mergeVars,
                   accepted>>

\* A unit of time is long beside the 10 s of run_loop's sleep and of a probe's
\* timeout.  It passes over cycles of run_loop that are not modelled only if
\* they are idle: they find the current proxy healthy and the list fresh.
IdleCycles ==
    /\ current_proxy # None
    /\ UrlOf(current_proxy) \in up
    /\ elapsed.last_full_refresh < StaleAfter

\* time.time() moves on by one unit, while run_loop awaits a refresh or the
\* remote consumer, or over idle cycles
TimePasses ==
    /\ elapsed.pool < StaleAfter
    /\ \/ tick.pc \in {"init", "fetch", "probing", "publish", "done", "crashed"}
       \/ tick.pc = "sleep" /\ IdleCycles
    /\ elapsed' = [f \in DOMAIN elapsed |->
                    IF elapsed[f] < StaleAfter THEN elapsed[f] + 1 ELSE StaleAfter]
    /\ UNCHANGED <<poolVars, current_proxy, running, refreshes, tick, force, val,
                   tasks, up, count, fh, mergeVars,
                   accepted>>

\* ---------------------------------------------------- refresh_proxies
\* The new best candidate after a demotion and a sort:
\* `if proxies[0].latency == inf: best_proxy = None else: best_proxy = proxies[0]`
PickBest(ps, lat) == IF lat[ps[1]] = Inf THEN None ELSE ps[1]

\* refresh_proxies from the fetches to the start of the probes: the sources'
\* lines are fetched, deduplicated, balanced and merged, the pool and the
\* best-candidate pointer are cleared, one check_and_add_proxy task is
\* created per candidate.  These are the sets of tasks it can create.
RefreshCandidates ==
    {Range(unique_proxies(r1, r2)) : r1 \in Responses(Hosts, MaxLines),
                                     r2 \in Responses(Hosts, MaxLines)}

GenOf(c) == IF c = "tick" THEN tick.gen ELSE force.gen

\* check_and_add_proxy of refresh c for candidate u completes.
check_and_add_proxy(c, u) ==
    /\ u \in tasks[c]
    /\ tasks' = [tasks EXCEPT ![c] = @ \ {u}]
    /\ \E lat \in ProbeOutcomes(u) :
         IF lat # Inf
         THEN LET o == <<GenOf(c), u>>
                  lat1 == [latency EXCEPT ![o] = lat]
                  ps == SortByLatency(Append(proxies, o), lat1)
              IN  /\ latency' = lat1
                  /\ proxies' = ps
                  /\ best_proxy' = ps[1]
                  /\ fh' = IF force.pc \in {"verify", "publish"}
                           THEN [fh EXCEPT !.members = @ \cup {o}] ELSE fh
         ELSE UNCHANGED <<poolVars, fh>>
    /\ UNCHANGED <<current_proxy, running, elapsed, refreshes, tick, force, val,
                   up, count, mergeVars,
                   accepted>>

\* ------------------------------------------------------- force_update
\* the members of the pool with the least latency
MinLatencyMembers ==
    {o \in Range(proxies) : \A q \in Range(proxies) : latency[o] <= latency[q]}

\* The history of a call.  The candidates it started to verify and the members
\* the pool had meanwhile are always counted; with tracing, also the state at
\* the call, every probe failure, what the publisher answered to every
\* publish, and the result.
HStart ==
    IF fh.tracing
    THEN [NoHistory EXCEPT !.tracing = TRUE, !.cur0 = current_proxy,
                           !.best0 = best_proxy, !.pool0 = proxies,
                           !.min0 = MinLatencyMembers, !.members = Range(proxies)]
    ELSE [NoHistory EXCEPT !.members = Range(proxies)]
HReturn(h, res, named) ==
    IF h.tracing THEN [h EXCEPT !.result = res, !.named = named] ELSE NoHistory
HPublished(h, o, out) == IF h.tracing THEN [h EXCEPT !.outs = Append(@, <<o, out>>)] ELSE h
HFailed(h, o) == IF h.tracing THEN [h EXCEPT !.failed = @ \cup {o}] ELSE h

ForceIdle == [pc |-> "idle", arg |-> None, gen |-> 0]

\* `if self.pm.best_proxy:` and `while self.pm.best_proxy:` with best
\* candidate b: the next candidate is probed, or the call returns res.
ForceLoop(b, res, h) ==
    IF b # None
    THEN /\ h.tries < MaxTries
         /\ force' = [pc |-> "verify", arg |-> b, gen |-> 0]
         /\ fh' = [h EXCEPT !.tries = @ + 1]
    ELSE /\ force' = ForceIdle
         /\ fh' = HReturn(h, res, None)

\* the web server calls force_update (src/web_server.py, /api/force)
ForceStart(L) ==
    /\ force.pc = "idle"
    /\ count.calls < L.calls
    /\ count' = [count EXCEPT !.calls = @ + 1]
    /\ IF best_proxy = None
       THEN /\ refreshes < L.refreshes
            /\ refreshes' = refreshes + 1
            /\ force' = [pc |-> "fetch", arg |-> None, gen |-> refreshes + 1]
            /\ fh' = HStart
       ELSE /\ ForceLoop(best_proxy, "error", HStart)
            /\ UNCHANGED refreshes
    /\ UNCHANGED <<poolVars, current_proxy, running, elapsed, tick, val, tasks,
                   up, mergeVars,
                   accepted>>

\* force_update's refresh_proxies: the fetches have answered
ForceRefreshFetched ==
    /\ force.pc = "fetch"
    /\ \E cand \in RefreshCandidates :
         /\ proxies' = <<>>
         /\ best_proxy' = None
         /\ latency' = NoLatency
         /\ IF cand = {}
            THEN /\ force' = ForceIdle
                 /\ fh' = HReturn(fh, "error", None)
                 /\ elapsed' = [elapsed EXCEPT !.pool = 0]
                 /\ UNCHANGED tasks
            ELSE /\ force' = [force EXCEPT !.pc = "probing"]
                 /\ tasks' = [tasks EXCEPT !["force"] = cand]
                 /\ UNCHANGED <<fh, elapsed>>
    /\ UNCHANGED <<current_proxy, running, refreshes, tick, val, up,
                   count, mergeVars,
                   accepted>>

\* force_update's refresh_proxies returns: every probe task has finished
ForceGatherDone ==
    /\ force.pc = "probing"
    /\ tasks["force"] = {}
    /\ ForceLoop(best_proxy, "error", [fh EXCEPT !.members = Range(proxies)])
    /\ elapsed' = [elapsed EXCEPT !.pool = 0]
    /\ UNCHANGED <<poolVars, current_proxy, running, refreshes, tick, val,
                   tasks, up, count, mergeVars,
                   accepted>>

\* force_update: the probe of the candidate has answered
ForceVerifyDone ==
    /\ force.pc = "verify"
    /\ \E lat \in ProbeOutcomes(UrlOf(force.arg)) :
         IF best_proxy = None
         THEN \* self.pm.best_proxy.latency = latency raises AttributeError
              /\ force' = ForceIdle
              /\ fh' = HReturn(fh, "exception", None)
              /\ UNCHANGED poolVars
         ELSE LET lat1 == SetLatency(best_proxy, lat)
                  ps == SortByLatency(proxies, lat1)
              IN  IF lat # Inf
                  THEN /\ latency' = lat1
                       /\ force' = [force EXCEPT !.pc = "publish", !.arg = best_proxy]
                       /\ UNCHANGED <<proxies, best_proxy, fh>>
                  ELSE /\ latency' = lat1
                       /\ proxies' = ps
                       /\ best_proxy' = PickBest(ps, lat1)
                       /\ ForceLoop(PickBest(ps, lat1), "error", HFailed(fh, force.arg))
    /\ UNCHANGED <<current_proxy, running, elapsed, refreshes, tick, val, tasks,
                   up, count, mergeVars,
                   accepted>>

\* force_update: update_remote has answered
ForcePublishDone ==
    /\ force.pc = "publish"
    /\ \E out \in PublishOutcomes :
         /\ accepted' = Accepting(force.arg, out)
         /\ IF Truthy(update_remote_result(out))
            THEN /\ current_proxy' = force.arg
                 /\ force' = ForceIdle
                 /\ fh' = IF best_proxy = None
                          THEN \* self.pm.best_proxy.url raises AttributeError
                               HReturn(HPublished(fh, force.arg, out), "exception", None)
                          ELSE HReturn(HPublished(fh, force.arg, out), "success", best_proxy)
                 /\ UNCHANGED poolVars
            ELSE IF best_proxy = None
            THEN \* self.pm.best_proxy.latency = float('inf') raises AttributeError
                 /\ force' = ForceIdle
                 /\ fh' = HReturn(HPublished(fh, force.arg, out), "exception", None)
                 /\ UNCHANGED <<poolVars, current_proxy>>
            ELSE LET lat1 == SetLatency(best_proxy, Inf)
                     ps == SortByLatency(proxies, lat1)
                 IN  /\ latency' = lat1
                     /\ proxies' = ps
                     /\ best_proxy' = PickBest(ps, lat1)
                     /\ ForceLoop(PickBest(ps, lat1), "error", HPublished(fh, force.arg, out))
                     /\ UNCHANGED current_proxy
    /\ UNCHANGED <<running, elapsed, refreshes, tick, val, tasks, up, count,
                   mergeVars>>

\* ------------------------------------------------------------ run_loop
TickSleep(t) == [t EXCEPT !.pc = "sleep", !.arg = None, !.gen = 0]

\* step 3 with best candidate b: `if needs_new_proxy: while self.pm.best_proxy:`
\* probes the candidate, otherwise the tick sleeps.
TickRotate(t, b) ==
    tick' = IF ~t.healthy /\ b # None
            THEN [t EXCEPT !.pc = "verify", !.arg = b, !.gen = 0]
            ELSE TickSleep(t)

\* step 2: refresh when a new proxy is needed or the list is older than 300 s
NeedsRefresh(t) == ~t.healthy \/ t.stale

TickRefreshOrRotate(L, t) ==
    IF NeedsRefresh(t)
    THEN /\ refreshes < L.refreshes
         /\ refreshes' = refreshes + 1
         /\ tick' = [t EXCEPT !.pc = "fetch", !.arg = None, !.gen = refreshes + 1]
    ELSE /\ TickRotate(t, best_proxy)
         /\ UNCHANGED refreshes

\* the top of `while self.running:` to the first await of the cycle
TickBody(L) ==
    LET t == [pc |-> "top", arg |-> None, gen |-> 0, healthy |-> FALSE,
              stale |-> elapsed.last_full_refresh >= StaleAfter,
              failed |-> FALSE]
    IN  IF current_proxy # None
        THEN /\ tick' = [t EXCEPT !.pc = "health", !.arg = current_proxy]
             /\ UNCHANGED refreshes
        ELSE TickRefreshOrRotate(L, t)

\* startup_event creates the run_loop task; it runs to its first await
RunLoopStart(L) ==
    /\ tick.pc = "init"
    /\ running' = TRUE
    /\ val' = [pc |-> "sleep", pending |-> {}]
    /\ count' = [count EXCEPT !.ticks = @ + 1]
    /\ TickBody(L)
    /\ UNCHANGED <<poolVars, current_proxy, elapsed, force, tasks, up,
                   fh, mergeVars,
                   accepted>>

\* a run_loop of `while True:`, which does not look at self.running
TickWakeAlways(L) ==
    /\ tick.pc = "sleep"
    /\ count.ticks < L.ticks
    /\ count' = [count EXCEPT !.ticks = @ + 1]
    /\ TickBody(L)
    /\ UNCHANGED <<poolVars, current_proxy, running, elapsed, force, val, tasks,
                   up, fh, mergeVars,
                   accepted>>

\* asyncio.sleep(10) is over
TickWake(L) ==
    /\ tick.pc = "sleep"
    /\ IF running
       THEN /\ count.ticks < L.ticks
            /\ count' = [count EXCEPT !.ticks = @ + 1]
            /\ TickBody(L)
       ELSE /\ tick' = [tick EXCEPT !.pc = "done"]
            /\ UNCHANGED <<refreshes, count>>
    /\ UNCHANGED <<poolVars, current_proxy, running, elapsed, force, val, tasks,
                   up, fh, mergeVars,
                   accepted>>

\* step 1: the health probe of the current proxy has answered
TickHealthDone(L) ==
    /\ tick.pc = "health"
    /\ \E lat \in ProbeOutcomes(UrlOf(tick.arg)) :
         IF lat # Inf
         THEN /\ latency' = SetLatency(current_proxy, lat)
              /\ TickRefreshOrRotate(L, [tick EXCEPT !.healthy = TRUE])
              /\ UNCHANGED current_proxy
         ELSE /\ current_proxy' = None
              /\ TickRefreshOrRotate(L, [tick EXCEPT !.failed = TRUE])
              /\ UNCHANGED latency
    /\ UNCHANGED <<proxies, best_proxy, running, elapsed, force, val, tasks, up,
                   count, fh, mergeVars,
                   accepted>>

\* run_loop's refresh_proxies: the fetches have answered, with the set cand of
\* candidates
TickRefreshFetchedWith(cand) ==
    /\ tick.pc = "fetch"
    /\ proxies' = <<>>
    /\ best_proxy' = None
    /\ latency' = NoLatency
    /\ IF cand = {}
       THEN /\ elapsed' = [last_full_refresh |-> 0, pool |-> 0]
            /\ TickRotate(tick, None)
            /\ UNCHANGED tasks
       ELSE /\ tick' = [tick EXCEPT !.pc = "probing"]
            /\ tasks' = [tasks EXCEPT !["tick"] = cand]
            /\ UNCHANGED elapsed
    /\ UNCHANGED <<current_proxy, running, refreshes, force, val, up, count,
                   fh, mergeVars,
                   accepted>>

TickRefreshFetched == \E cand \in RefreshCandidates : TickRefreshFetchedWith(cand)

\* run_loop's refresh_proxies returns; last_full_refresh = time.time(); step 3
TickGatherDone ==
    /\ tick.pc = "probing"
    /\ tasks["tick"] = {}
    /\ elapsed' = [last_full_refresh |-> 0, pool |-> 0]
    /\ TickRotate(tick, best_proxy)
    /\ UNCHANGED <<poolVars, current_proxy, running, refreshes, force, val, tasks,
                   up, count, fh, mergeVars,
                   accepted>>

\* step 3: the probe of the candidate has answered
TickVerifyDone ==
    /\ tick.pc = "verify"
    /\ \E lat \in ProbeOutcomes(UrlOf(tick.arg)) :
         IF best_proxy = None
         THEN \* self.pm.best_proxy.latency = latency raises AttributeError
              /\ tick' = [tick EXCEPT !.pc = "crashed", !.arg = None]
              /\ UNCHANGED latency
         ELSE /\ latency' = SetLatency(best_proxy, lat)
              /\ tick' = IF lat # Inf
                         THEN [tick EXCEPT !.pc = "publish", !.arg = best_proxy]
                         ELSE \* break: wait for the next cycle
                              TickSleep(tick)
    /\ UNCHANGED <<proxies, best_proxy, current_proxy, running, elapsed, refreshes,
                   force, val, tasks, up, count, fh, mergeVars,
                   accepted>>

\* step 3: update_remote has answered, the consumer's answer being out
TickPublishDoneWith(out) ==
    /\ tick.pc = "publish"
    /\ IF Truthy(update_remote_result(out))
       THEN /\ current_proxy' = tick.arg
            /\ tick' = TickSleep(tick)
            /\ UNCHANGED poolVars
       ELSE IF best_proxy = None
       THEN \* self.pm.best_proxy.latency = float('inf') raises AttributeError
            /\ tick' = [tick EXCEPT !.pc = "crashed", !.arg = None]
            /\ UNCHANGED <<poolVars, current_proxy>>
       ELSE LET lat1 == SetLatency(best_proxy, Inf)
                ps == SortByLatency(proxies, lat1)
            IN  /\ latency' = lat1
                /\ proxies' = ps
                /\ best_proxy' = PickBest(ps, lat1)
                /\ TickRotate(tick, PickBest(ps, lat1))
                /\ UNCHANGED current_proxy
    /\ accepted' = Accepting(tick.arg, out)
    /\ UNCHANGED <<running, elapsed, refreshes, force, val, tasks, up, count,
                   fh, mergeVars>>

TickPublishDone == \E out \in PublishOutcomes : TickPublishDoneWith(out)

\* main.py's shutdown_event
stop ==
    /\ running
    /\ running' = FALSE
    /\ UNCHANGED <<poolVars, current_proxy, elapsed, refreshes, tick, force, val,
                   tasks, up, count, fh, mergeVars,
                   accepted>>

\* ------------------------------------------- continuous_validation_loop
\* the top of `while self.running:` to the sleep or to the gather
ValTop(L) ==
    /\ val.pc = "sleep"
    /\ IF ~running
       THEN val' = [pc |-> "done", pending |-> {}] /\ UNCHANGED count
       ELSE IF proxies = <<>>
       THEN UNCHANGED <<val, count>>
       ELSE /\ count.passes < L.passes
            /\ count' = [count EXCEPT !.passes = @ + 1]
            /\ val' = [pc |-> "probing", pending |-> Range(proxies)]
    /\ UNCHANGED <<poolVars, current_proxy, running, elapsed, refreshes, tick, force,
                   tasks, up, fh, mergeVars,
                   accepted>>

\* validate(p): the probe of p has answered, its latency is written in place
validate(p) ==
    /\ val.pc = "probing"
    /\ p \in val.pending
    /\ \E lat \in ProbeOutcomes(UrlOf(p)) : latency' = SetLatency(p, lat)
    /\ val' = [val EXCEPT !.pending = @ \ {p}]
    /\ UNCHANGED <<proxies, best_proxy, current_proxy, running, elapsed, refreshes,
                   tick, force, tasks, up, count, fh, mergeVars,
                   accepted>>

\* a validator that drops the members its pass found unreachable
ValPassEndPruning ==
    /\ val.pc = "probing"
    /\ val.pending = {}
    /\ LET ps == SelectSeq(SortByLatency(proxies, latency),
                           LAMBDA o : latency[o] # Inf)
       IN  /\ proxies' = ps
           /\ best_proxy' = IF ps = <<>> THEN None ELSE ps[1]
    /\ val' = [val EXCEPT !.pc = "sleep"]
    /\ UNCHANGED <<latency, current_proxy, running, elapsed, refreshes, tick, force,
                   tasks, up, count, fh, mergeVars,
                   accepted>>

\* the gather returns: the pool is sorted again, an unreachable best is replaced
ValPassEnd ==
    /\ val.pc = "probing"
    /\ val.pending = {}
    /\ LET ps == SortByLatency(proxies, latency)
       IN  /\ proxies' = ps
           /\ best_proxy' = IF ps # <<>> /\ best_proxy # None /\ latency[best_proxy] = Inf
                            THEN ps[1] ELSE best_proxy
    /\ val' = [val EXCEPT !.pc = "sleep"]
    /\ UNCHANGED <<latency, current_proxy, running, elapsed, refreshes, tick, force,
                   tasks, up, count, fh, mergeVars,
                   accepted>>

\* ------------------------------------------------------- specifications
TickNext(L) ==
    \/ RunLoopStart(L)
    \/ TickWake(L)
    \/ TickHealthDone(L)
    \/ TickRefreshFetched
    \/ \E u \in Urls : check_and_add_proxy("tick", u)
    \/ TickGatherDone
    \/ TickVerifyDone
    \/ TickPublishDone

ValNext(L) ==
    \/ ValTop(L)
    \/ \E p \in Objs : validate(p)
    \/ ValPassEnd

ForceNext(L) ==
    \/ ForceStart(L)
    \/ ForceRefreshFetched
    \/ \E u \in Urls : check_and_add_proxy("force", u)
    \/ ForceGatherDone
    \/ ForceVerifyDone
    \/ ForcePublishDone

EnvNext ==
    \/ \E u \in Urls : EnvProxy(u)
    \/ TimePasses

\* The whole program: the tick loop, the validator, force_update calls, stop.
LSpec == Limits(MaxRefresh, MaxTicks, MaxCalls, MaxPasses, FALSE)
Next == TickNext(LSpec) \/ ValNext(LSpec) \/ ForceNext(LSpec) \/ EnvNext \/ stop
Spec == Init(LSpec) /\ [][Next]_vars

\* force_update called, one call after the other, on an updater whose
\* run_loop has not been started.
LForce == Limits(MaxRefresh + 1, 0, MaxCalls + 1, 0, TRUE)
NextForce == ForceNext(LForce) \/ (\E u \in Urls : EnvProxy(u))
SpecForce == Init(LForce) /\ [][NextForce]_vars

\* run_loop alone, over two refreshes: its validator and force_update do not
\* get to run.
LTick == Limits(MaxRefresh + 1, MaxTicks, 0, 0, FALSE)
NextTick == TickNext(LTick) \/ EnvNext
SpecTick == Init(LTick) /\ [][NextTick]_vars

\* run_loop and one force_update call, over two refreshes, while the
\* reachability of the endpoints stays as it is: the validator does not get to
\* run.
LOverlap == Limits(MaxRefresh + 1, MaxTicks, MaxCalls, 0, FALSE)
NextOverlap == TickNext(LOverlap) \/ ForceNext(LOverlap)
SpecOverlap == Init(LOverlap) /\ [][NextOverlap]_vars

\* run_loop and its validator until after the shutdown, without force_update
\* calls.  Every tick may refresh, so that no tick waits for a refresh the
\* limits do not allow.  The event loop runs every task that is ready, and
\* every await of the two loops ends: the probes and the fetches have a
\* timeout, the sleeps are finite.
LStop == Limits(MaxRefresh + 1, MaxTicks, 0, MaxPasses, FALSE)
NextStop == TickNext(LStop) \/ ValNext(LStop) \/ EnvNext \/ stop

\* The steps of run_loop, whatever the sources answer to a fetch: enabled
\* exactly when a step of TickNext is, and every step of it that NextStop
\* allows is a step of TickNext.
TickProgress(L) ==
    \/ RunLoopStart(L)
    \/ TickWake(L)
    \/ TickHealthDone(L)
    \/ \E cand \in SUBSET Urls : TickRefreshFetchedWith(cand)
    \/ \E u \in Urls : check_and_add_proxy("tick", u)
    \/ TickGatherDone
    \/ TickVerifyDone
    \/ TickPublishDone

SpecStop ==
    /\ Init(LStop)
    /\ [][NextStop]_vars
    /\ WF_vars(TickProgress(LStop))
    /\ WF_vars(ValNext(LStop))

\* run_loop and one force_update call while time passes, over three refreshes;
\* one endpoint answers probes throughout, the validator does not get to run.
LStale == Limits(MaxRefresh + 2, MaxTicks, MaxCalls, 0, FALSE)
NextStale == TickNext(LStale) \/ ForceNext(LStale) \/ TimePasses
InitStale == Init(LStale) /\ Cardinality(up) = 1
SpecStale == InitStale /\ [][NextStale]_vars

\* refresh_proxies from the answers of the two sources to the list of
\* candidates it is going to probe.
RefreshMerge ==
    /\ ~merged.done
    /\ merged' = [done |-> TRUE, list |-> unique_proxies(p1raw, p2raw)]
    /\ UNCHANGED <<poolVars, current_proxy, running, elapsed, refreshes, tick, force,
                   val, tasks, up, count, fh, p1raw, p2raw, accepted>>

InitBalance ==
    /\ ProgramInit(LSpec)
    /\ up = {}
    /\ p1raw \in Responses(RawHosts, MaxRaw)
    /\ p2raw \in Responses(RawHosts, MaxRaw)
    /\ merged = NotMerged
SpecBalance == InitBalance /\ [][RefreshMerge]_vars

\* ------------------------------------------------------------ properties
\* run_loop is inside its health check, refresh or rotation
TickBusy == tick.pc \in {"health", "fetch", "probing", "verify", "publish"}
\* a force_update call is in progress
ForceBusy == force.pc # "idle"

\* C1: the tick's work and a force_update call are mutually exclusive: never is
\* a force_update call between its first read of the best-candidate pointer and
\* its return while run_loop is suspended inside its health check, refresh or
\* rotation.  (Specification Spec.)
C1_MutualExclusion == ~(TickBusy /\ ForceBusy)

\* C2: in every reachable state the best-candidate pointer is a member of the
\* pool with a finite latency that no member undercuts, and it is None exactly
\* when the pool is empty or every member's latency is inf.  (Specification
\* Spec.)
C2_BestIsMinReachable ==
    LET reachable == {o \in Range(proxies) : latency[o] # Inf}
    IN  /\ (best_proxy = None) <=> (reachable = {})
        /\ best_proxy # None =>
             /\ best_proxy \in reachable
             /\ \A q \in reachable : latency[best_proxy] <= latency[q]

\* C3: the pool is in ascending order of latency in every reachable state, so
\* after every mutation.  (Specification Spec.)
C3_PoolSorted ==
    \A i \in 1..(Len(proxies) - 1) : latency[proxies[i]] <= latency[proxies[i + 1]]

\* C4: no two records of the pool have the same endpoint key, also when a
\* refresh of run_loop and a refresh of force_update overlap.  (Specification
\* SpecOverlap.)
C4_NoDuplicateKeys ==
    \A i, j \in 1..Len(proxies) : i # j => UrlOf(proxies[i]) # UrlOf(proxies[j])

\* What a source served, read off its answer: the positions of the lines that
\* name an endpoint for the first time, and the k-th of these positions.
FirstSeen(r) ==
    IF r.status # 200 THEN {}
    ELSE {i \in 1..Len(r.lines) :
            /\ r.lines[i] # Malformed
            /\ \A j \in 1..(i - 1) : r.lines[j] # r.lines[i]}
Kth(S, k) == CHOOSE i \in S : Cardinality({j \in S : j <= i}) = k
\* the least count over the sources that served something, 0 if none did
FairShare(r1, r2) ==
    LET c1 == Cardinality(FirstSeen(r1))
        c2 == Cardinality(FirstSeen(r2))
    IN  IF c1 = 0 THEN c2 ELSE IF c2 = 0 THEN c1 ELSE IF c1 < c2 THEN c1 ELSE c2
\* the first n endpoints of a source, in the order it served them
FirstN(proto, r, n) ==
    IF FirstSeen(r) = {} THEN <<>>
    ELSE [k \in 1..n |-> <<proto, r.lines[Kth(FirstSeen(r), k)]>>]
OfProtocol(list, proto) == SelectSeq(list, LAMBDA u : u[1] = proto)

\* C5: with n the least number of distinct endpoints over the sources that
\* served any, the list refresh_proxies is going to probe holds, of each source
\* that served any, exactly its first n endpoints in first-seen order, nothing of
\* a source that is empty or failed, and nothing at all if both are.
\* (Specification SpecBalance.)
C5_FairBalance ==
    merged.done =>
        LET n == FairShare(p1raw, p2raw)
        IN  /\ OfProtocol(merged.list, "socks5") = FirstN("socks5", p1raw, n)
            /\ OfProtocol(merged.list, "http") = FirstN("http", p2raw, n)
            /\ (FirstSeen(p1raw) = {} /\ FirstSeen(p2raw) = {}) => merged.list = <<>>

\* C5's case: both sources served something, the first more than the second,
\* the second at least two endpoints among repeated or malformed lines, and
\* the list is cut to the second's count.
C5_Witness ==
    /\ merged.done
    /\ Cardinality(FirstSeen(p1raw)) > Cardinality(FirstSeen(p2raw))
    /\ Cardinality(FirstSeen(p2raw)) >= 2
    /\ Len(p2raw.lines) > Cardinality(FirstSeen(p2raw))
    /\ Len(merged.list) = 4

\* C6: a force_update call has started to verify at most as many candidates as
\* the pool has had members during the call, also while the validator
\* re-probes members.  (Specification Spec.)
C6_TriesBoundedByPool == fh.tries <= Cardinality(fh.members)

\* a force_update call has returned
Returned == force.pc = "idle" /\ fh.result # "none"
\* the answers of the publisher to the call, without the candidates
Answers == [i \in 1..Len(fh.outs) |-> fh.outs[i][2]]

\* C7: a force_update call, running alone, that started with a best candidate
\* P1, in which no probe failed, whose first publish (of P1) was answered with
\* the rejection marker and whose second publish was accepted, returns with
\* another member than P1 active and named in the result, P1 still a member
\* with latency inf, and the members the pool had at the call.  (Specification
\* SpecForce.)
C7_RejectionDemotion ==
    (/\ Returned
     /\ fh.best0 # None
     /\ fh.failed = {}
     /\ Answers = <<"reject", "accept">>
     /\ fh.outs[1][1] = fh.best0)
    => /\ current_proxy = fh.outs[2][1]
       /\ current_proxy # fh.best0
       /\ current_proxy \in Range(proxies)
       /\ fh.result = "success"
       /\ fh.named = current_proxy
       /\ fh.best0 \in Range(proxies)
       /\ latency[fh.best0] = Inf
       /\ Range(proxies) = Range(fh.pool0)
       /\ Len(proxies) = Len(fh.pool0)

\* C7's case: such a call has returned, and another proxy was active before it.
C7_Witness ==
    /\ Returned
    /\ fh.best0 # None
    /\ fh.failed = {}
    /\ Answers = <<"reject", "accept">>
    /\ fh.outs[1][1] = fh.best0
    /\ fh.cur0 = fh.best0

\* C8: a force_update call on a pool with a best candidate, whose one member
\* of least latency, P1, answers probes, and whose publishes were all accepted,
\* has published exactly once, made P1 the active proxy and returned a success
\* naming P1.  (Specification SpecForce.)
C8_RotationLiveness ==
    \A P1 \in Range(fh.pool0) :
        (/\ Returned
         /\ fh.best0 # None
         /\ fh.min0 = {P1}
         /\ UrlOf(P1) \in up
         /\ P1 \notin fh.failed
         /\ \A i \in 1..Len(Answers) : Answers[i] = "accept")
        => /\ Len(fh.outs) = 1
           /\ current_proxy = P1
           /\ fh.result = "success"
           /\ fh.named = P1

\* the tick's step 3 gives up and goes to sleep after a failed health check
GivesUp == tick.failed /\ tick.pc \in {"probing", "verify", "publish"} /\ tick'.pc = "sleep"
\* a member that passes its direct probe
Available(o) == o \in Range(proxies') /\ latency'[o] # Inf /\ UrlOf(o) \in up

\* C9: a tick whose health probe failed does not go to sleep without an active
\* proxy while a member of the pool has a finite latency and answers probes,
\* also when the first candidate failed its re-verification.  (Specification
\* SpecTick.)
C9_FailoverInSameTick ==
    [][(GivesUp /\ \E o \in Objs : Available(o)) => current_proxy' # None]_vars

\* C10: a force_update call, running alone, in which the publisher accepted
\* nothing returns the failure result and leaves current_proxy as it was at the
\* call; and it returns the failure result only then.  (Specification
\* SpecForce.)
C10_Exhaustion ==
    Returned =>
        /\ (\A i \in 1..Len(Answers) : Answers[i] # "accept")
             => fh.result = "error" /\ current_proxy = fh.cur0
        /\ fh.result = "error" => current_proxy = fh.cur0

\* C10's cases: with a proxy active, a call found the pool without a best
\* candidate and its refresh admitted nothing; a call had every candidate of a
\* pool of two refused or failing.
C10_Witness ==
    /\ Returned
    /\ fh.result = "error"
    /\ fh.cur0 # None
    /\ \/ fh.best0 = None /\ fh.tries = 0
       \/ fh.tries = 2 /\ Len(fh.outs) >= 1

\* C11: the second of two force_update calls in immediate succession, made
\* while the proxy the first call activated still answers probes and no probe
\* of the call fails, publishes nothing and leaves current_proxy as it was.
\* (Specification SpecForce.)
C11_ForceIdempotent ==
    (/\ Returned
     /\ count.calls = 2
     /\ fh.cur0 # None
     /\ fh.cur0 \in Range(fh.pool0)
     /\ UrlOf(fh.cur0) \in up
     /\ fh.failed = {})
    => /\ fh.outs = <<>>
       /\ current_proxy = fh.cur0

\* C12: run_loop never dies of an unhandled error: it never dereferences a
\* best-candidate pointer that has become None while its probe or its publish
\* was in flight.  (Specification Spec.)
C12_TickNeverCrashes == tick.pc # "crashed"


\* `self.concurrency_limit = 50`, scaled down: every asyncio.Semaphore of the
\* program is created with this many permits.  A refresh of this model never
\* has more candidates than permits, so no task waits for one.
concurrency_limit == 2

\* the probes that n tasks sharing one semaphore have in flight
Held(n) == IF n < concurrency_limit THEN n ELSE concurrency_limit

\* The probes in flight under a semaphore: refresh_proxies creates a new
\* semaphore in every call, continuous_validation_loop has its own.
ProbesInFlight ==
    Held(Cardinality(tasks["tick"])) + Held(Cardinality(tasks["force"]))
        + Held(Cardinality(val.pending))

\* C13: the probes in flight from all refreshes and from the validator
\* together never exceed the one configured concurrency ceiling.
\* (Specification SpecOverlap.)
C13_SharedCeiling == ProbesInFlight <= concurrency_limit

\* stop() has been called on a started updater
Stopped == ~running /\ tick.pc # "init"

\* C14: once stop() has been called, run_loop and the validator each exit
\* after the tick and the pass in progress, and from then on no new tick and
\* no new validation pass is started.  (Specification SpecStop.)
C14_Shutdown ==
    /\ Stopped ~> (tick.pc = "done" /\ val.pc = "done")
    /\ [][Stopped => count' = count]_vars

\* stop() has been called while a tick awaits the probe of its candidate and a
\* validation pass has probes in flight
C14_Witness ==
    /\ Stopped
    /\ tick.pc = "verify"
    /\ val.pc = "probing"
    /\ val.pending # {}

\* C15: when the re-verification probe of the tick's candidate fails, the tick
\* goes on with the next candidate; it leaves the rotation for the sleep after
\* a probe only when no member of the pool is a candidate any more (all are
\* demoted to unreachable).  (Specification SpecTick.)
C15_VerifyFailureRetries ==
    [][(tick.pc = "verify" /\ tick'.pc = "sleep")
          => \A o \in Range(proxies') : latency'[o] = Inf]_vars

\* C16: when the tick's publish attempt ends in an error talking to the
\* consumer, or in a failure without the rejection marker, no latency is
\* changed and the tick goes to its sleep without trying another candidate.
\* (Specification SpecTick.)
C16_ErrorIsNotRejection ==
    [][\A out \in {"error", "fail"} :
          TickPublishDoneWith(out) => (latency' = latency /\ tick'.pc = "sleep")]_vars

\* the step in which the probe of the tick's / the call's candidate answers
TickProbeAnswers == tick.pc = "verify" /\ tick' # tick
ForceProbeAnswers == force.pc = "verify" /\ force' # force

\* C17: the record handed to update_remote, by run_loop or by force_update,
\* is the record whose probe has just answered, and the probe's latency is
\* written to no other record, whatever happened to best_proxy while the probe
\* was in flight.  (Specification Spec.)
C17_PublishesProbedRecord ==
    [][/\ TickProbeAnswers =>
            /\ tick'.pc = "publish" => tick'.arg = tick.arg
            /\ \A o \in Objs \ {tick.arg} : latency'[o] = latency[o]
       /\ ForceProbeAnswers =>
            /\ force'.pc = "publish" => force'.arg = force.arg
            /\ \A o \in Objs \ {force.arg} : latency'[o] = latency[o]]_vars

\* the step in which the health probe of step 1 answers
HealthProbeAnswers == tick.pc = "health" /\ tick' # tick

\* C18: current_proxy goes from a record to None only when the health probe
\* of that same record answers; and the answer of a health probe of a record
\* that is no longer the current one neither clears current_proxy nor changes
\* a latency.  (Specification SpecOverlap.)
C18_StaleProbeIsIgnored ==
    [][/\ (current_proxy # None /\ current_proxy' = None)
            => (HealthProbeAnswers /\ tick.arg = current_proxy)
       /\ (HealthProbeAnswers /\ tick.arg # current_proxy)
            => (current_proxy' = current_proxy /\ latency' = latency)]_vars

\* a step of continuous_validation_loop
ValidatorStep == val.pc # "off" /\ val' # val

\* C20: no step of the validator adds a member to the pool, removes one or
\* changes current_proxy: only latencies, the order of the pool and best_proxy
\* may differ after it.  (Specification Spec.)
C20_ValidatorFrame ==
    [][ValidatorStep =>
          /\ Range(proxies') = Range(proxies)
          /\ Len(proxies') = Len(proxies)
          /\ current_proxy' = current_proxy]_vars

\* a pass has probed every member while a proxy is active, and its latencies
\* have put the pool out of order: the end of the pass is going to sort it
C20_Witness ==
    /\ val.pc = "probing"
    /\ val.pending = {}
    /\ current_proxy # None
    /\ Len(proxies) = 2
    /\ proxies # SortByLatency(proxies, latency)

\* the step in which a tick has done step 1 and decides about the refresh
TickDecides ==
    /\ tick.pc \in {"init", "sleep", "health"}
    /\ tick' # tick
    /\ tick'.pc \notin {"health", "done"}

\* C19: a tick, after the first, that found its active proxy healthy while
\* the pool was refreshed less than 300 s ago runs no refresh, publishes
\* nothing, and leaves the pool and current_proxy as they are; a tick without
\* a healthy active proxy, or with a pool refreshed more than 300 s ago,
\* refreshes.  (Specification SpecStale.)
C19_ConditionalRefresh ==
    [][TickDecides =>
          /\ (count.ticks > 1 /\ tick'.healthy /\ elapsed.pool < StaleAfter)
                => /\ tick'.pc = "sleep"
                   /\ refreshes' = refreshes
                   /\ proxies' = proxies
                   /\ current_proxy' = current_proxy
          /\ (~tick'.healthy \/ (tick'.stale /\ elapsed.pool >= StaleAfter))
                => tick'.pc = "fetch"]_vars

\* The steps the code takes inside `async with self._lock:`: the clearing of
\* the pool by refresh_proxies, the admission of a candidate by
\* check_and_add_proxy, the sort at the end of a validation pass.  No await
\* stands inside these blocks, so the lock is free in every state.
UnderLock ==
    \/ TickRefreshFetched
    \/ ForceRefreshFetched
    \/ \E c \in {"tick", "force"}, u \in Urls : check_and_add_proxy(c, u)
    \/ ValPassEnd

\* a step that changes the members of the pool or their order, or in which
\* the validator writes a latency
PoolMutated ==
    \/ proxies' # proxies
    \/ ValidatorStep /\ latency' # latency

\* C21: every step that changes the membership or the order of the pool, and
\* every latency written by the validator, is taken while holding the
\* pool's lock.  (Specification Spec.)
C21_MutationsUnderLock == [][PoolMutated => UnderLock]_vars

\* C22: an active proxy is a record the remote consumer accepted in an
\* earlier publish call; a rejected or failed publish, an exception or a
\* probe alone never makes a record active.  (Specification Spec.)
C22_ActiveWasAccepted == current_proxy # None => current_proxy \in accepted

\* a record is active, after both a tick and a force rotation have run, while
\* another record of the pool was published, not accepted and demoted
C22_Witness ==
    /\ current_proxy # None
    /\ count.ticks > 0
    /\ count.calls > 0
    /\ \E o \in Range(proxies) :
          o # current_proxy /\ o \notin accepted /\ latency[o] = Inf

====
